---- MODULE Spec2Model ----
(***************************************************************************)
(* BuildLucky: the advice service (localAdviceService, kept at the end of  *)
(* src/App.tsx) and the ads service (src/services/geminiService.ts).       *)
(*                                                                         *)
(* Both services keep a module-level cache that is filled lazily by one    *)
(* asynchronous fetch of a Google Sheet exported as CSV.  JavaScript runs  *)
(* each task to completion, so a step of the model is one task: a call of  *)
(* an exported function up to its first await, or the arrival of a network *)
(* result together with every promise continuation it releases.            *)
(*                                                                         *)
(* Strings are modelled as sequences of tokens: a criteria string is the   *)
(* sequence its split(' ') yields, a text or a period label is a sequence  *)
(* of words, marker characters and {placeholders}.  A nullable value is    *)
(* <<>> (null) or <<v>>.                                                   *)
(***************************************************************************)
EXTENDS Integers, Sequences, FiniteSets, TLC

VARIABLES
    sheet,          \* rows the advice sheet serves (after the header row)
    allAdvice,      \* App.tsx:478  AdviceItem[] | null
    isFetching,     \* App.tsx:479
    fetchPromise,   \* App.tsx:480  0 is null, else the id of the fetch it runs
    net,            \* advice fetches started so far, each with its phase
    calls,          \* invocations of generateDetailedAdvice
    adSheet,        \* rows the ads sheet serves (after the header row)
    allAds,         \* geminiService.ts:26  AdItem[] | null
    adIsFetching,   \* geminiService.ts:27
    adFetchPromise, \* geminiService.ts:28
    adNet,          \* ads fetches started so far, each with its phase
    adCalls,        \* invocations of fetchAds
    coaches,        \* AdviceCoach.tsx:24-26  advice, isLoading, error of each instance
    criteriaStr,    \* the criteria string handed to evaluateCriteria
    critSummary,    \* the summary handed to evaluateCriteria
    verdict,        \* what evaluateCriteria returned
    currentDate,    \* App.tsx:91  the selected day, in days from today
    allLogs,        \* App.tsx:92  Record<string, DailyLog>
    changes,        \* handlers of the daily view run so far
    lastChange      \* the last handler run, with the log it read

adviceVars == <<sheet, allAdvice, isFetching, fetchPromise, net, calls>>
adVars == <<adSheet, allAds, adIsFetching, adFetchPromise, adNet, adCalls>>
coachVars == <<coaches>>
criteriaVars == <<criteriaStr, critSummary, verdict>>
logVars == <<currentDate, allLogs, changes, lastChange>>
\* the state outside the two services
restVars == <<criteriaStr, critSummary, verdict, currentDate, allLogs, changes, lastChange>>
vars == <<sheet, allAdvice, isFetching, fetchPromise, net, calls,
          adSheet, allAds, adIsFetching, adFetchPromise, adNet, adCalls,
          coaches, criteriaStr, critSummary, verdict,
          currentDate, allLogs, changes, lastChange>>

----------------------------------------------------------------------------
(* Bounds *)

\* invocations of generateDetailedAdvice in one behaviour of Spec
MaxCalls == 3
\* invocations of fetchAds in one behaviour of SpecAds
MaxAdCalls == 4
\* rows of the advice sheet in SpecCompose
MaxRows == 3
\* largest value of a counter of a summary in SpecCompose
MaxCount == 2
\* tokens of a criteria string in SpecCriteria
MaxTokens == 3
\* handlers of the daily view run in one behaviour
MaxChanges == 3
\* days before today that can be selected
MaxDays == 1

----------------------------------------------------------------------------
(* Nullable values *)

Null == <<>>
Some(v) == <<v>>
IsNull(x) == x = <<>>
Val(x) == x[1]

----------------------------------------------------------------------------
(* LogSummaryForAdvice, App.tsx:460-469 *)

Fields ==
    {"goodThoughts", "badThoughts", "goodActions", "badActions",
     "goodWordsCount", "badWordsCount", "happyEvents", "toughEvents"}

ZeroSummary == [f \in Fields |-> 0]

\* Object.values(logSummary).reduce((sum, val) => sum + (val || 0), 0)
totalActions(s) ==
    s["goodThoughts"] + s["badThoughts"] + s["goodActions"] + s["badActions"]
    + s["goodWordsCount"] + s["badWordsCount"] + s["happyEvents"] + s["toughEvents"]

----------------------------------------------------------------------------
(* The fixed strings of generateDetailedAdvice *)

\* "조언 데이터를 불러오지 못했습니다. 인터넷 연결을 확인하거나 관리자에게 문의하세요."
DataUnavailableMsg == <<"MSG_DATA_UNAVAILABLE">>
\* "기록이 없습니다. 자신의 기운을 기록하고 맞춤 조언을 받아보세요."
NoActivityMsg == <<"MSG_NO_ACTIVITY">>
\* "조언을 생성하는 중 오류가 발생했습니다. 잠시 후 다시 시도해주세요."
GenerationFailedMsg == <<"MSG_GENERATION_FAILED">>
\* the headings and the fixed encouragement sentence
StrengthHeading == "H_STRENGTH"
GrowthHeading == "H_GROWTH"
TipsHeading == "H_TIPS"
Encouragement == "ENCOURAGEMENT"
\* the characters String.includes looks for in a period label
WeekMarker == "WEEK"
MonthMarker == "MONTH"

----------------------------------------------------------------------------
(* evaluateCriteria, App.tsx:547-586 *)

\* Names every object inherits: `key in summary` is true of them too, and
\* summary[key] is then a function object, not a number.
ObjectProtoKeys == {"toString", "constructor", "valueOf", "hasOwnProperty"}

\* Number(raw) of the literals used in the sheets; every other token is NaN.
NumberOf ==
    [t \in {"", "0", "1", "2", "3", "5"} |->
        CASE t = "" -> 0 [] t = "0" -> 0 [] t = "1" -> 1 [] t = "2" -> 2
          [] t = "3" -> 3 [] t = "5" -> 5]

isValidKey(key, s) == key \in DOMAIN s \/ key \in ObjectProtoKeys

\* A value read from the summary: a number, or an inherited function object.
NumV(n) == [isNum |-> TRUE, n |-> n, obj |-> ""]
ObjV(k) == [isNum |-> FALSE, n |-> 0, obj |-> k]
Lookup(s, key) == IF key \in DOMAIN s THEN NumV(s[key]) ELSE ObjV(key)

\* The switch of lines 578-585.  A function object compared with a number is
\* NaN on one side, so every operator yields false; the same function object
\* on both sides is equal to itself (==) and its source text is >= and <= itself.
compare(l, op, r) ==
    IF l.isNum /\ r.isNum
    THEN CASE op = ">" -> l.n > r.n
           [] op = "<" -> l.n < r.n
           [] op = ">=" -> l.n >= r.n
           [] op = "<=" -> l.n <= r.n
           [] op = "==" -> l.n = r.n
           [] OTHER -> FALSE
    ELSE IF (~l.isNum) /\ (~r.isNum) /\ l.obj = r.obj
    THEN op \in {">=", "<=", "=="}
    ELSE FALSE

evaluateCriteria(criteria, s) ==
    IF criteria = <<"ALWAYS_MATCH">> \/ criteria = <<"">>
    THEN TRUE
    ELSE IF Len(criteria) # 3
    THEN FALSE
    ELSE IF ~isValidKey(criteria[1], s)
    THEN FALSE
    ELSE IF criteria[3] \in DOMAIN NumberOf
    THEN compare(Lookup(s, criteria[1]), criteria[2], NumV(NumberOf[criteria[3]]))
    ELSE IF isValidKey(criteria[3], s)
    THEN compare(Lookup(s, criteria[1]), criteria[2], Lookup(s, criteria[3]))
    ELSE FALSE

----------------------------------------------------------------------------
(* Sequences of tokens *)

RECURSIVE Flatten(_)
Flatten(ss) == IF ss = <<>> THEN <<>> ELSE Head(ss) \o Flatten(Tail(ss))

includes(str, ch) == \E i \in 1..Len(str) : str[i] = ch

\* String.prototype.replace with a string pattern: the first occurrence only.
replaceFirst(str, pat, by) ==
    IF includes(str, pat)
    THEN LET i == CHOOSE k \in 1..Len(str) :
                      str[k] = pat /\ \A j \in 1..(k - 1) : str[j] # pat
         IN  SubSeq(str, 1, i - 1) \o by \o SubSeq(str, i + 1, Len(str))
    ELSE str

\* String.prototype.replace with a /.../g pattern: every occurrence.
replaceAll(str, pat, by) ==
    Flatten([i \in 1..Len(str) |-> IF str[i] = pat THEN by ELSE <<str[i]>>])

\* String.prototype.trim on a criteria string: the spaces at both ends go,
\* which are the empty tokens at both ends of its split(' ').
RECURSIVE trimLeft(_)
trimLeft(c) ==
    IF Len(c) > 1 /\ Head(c) = "" THEN trimLeft(Tail(c)) ELSE c

RECURSIVE trimRight(_)
trimRight(c) ==
    IF Len(c) > 1 /\ c[Len(c)] = "" THEN trimRight(SubSeq(c, 1, Len(c) - 1)) ELSE c

trim(c) == trimRight(trimLeft(c))

----------------------------------------------------------------------------
(* The rows of the sheet and their parsing, App.tsx:524-534 *)

\* A row as parseCsvRow returns it: [type, subtype, text, criteria].
Row(type, subtype, text, criteria) ==
    [type |-> type, subtype |-> subtype, text |-> text, criteria |-> criteria]

\* if (type && subtype && text && criteria)
rowIsComplete(r) ==
    r.type # "" /\ r.subtype # "" /\ r.text # <<>> /\ r.criteria # <<"">>

\* parsedAdvice.push({ type, subtype, text, criteria: criteria.trim() })
parseRows(rows) ==
    LET kept == SelectSeq(rows, rowIsComplete)
    IN  [i \in 1..Len(kept) |->
            [type |-> kept[i].type, subtype |-> kept[i].subtype,
             text |-> kept[i].text, criteria |-> trim(kept[i].criteria)]]

----------------------------------------------------------------------------
(* findAndPick, App.tsx:603-610, with pickRandom, App.tsx:482 *)

\* arr[Math.floor(Math.random() * arr.length)]: any element of arr
pickRandom(arr) == {arr[i] : i \in 1..Len(arr)}

\* `if (subtype)`: null and the empty string are both "no subtype"
subtypeGiven(subtype) == (~IsNull(subtype)) /\ Val(subtype) # ""

\* findAndPick without its criteria filter (line 608 dropped)
findAndPickAnyCriteria(adv, s, type, subtype) ==
    LET pool == SelectSeq(adv, LAMBDA it : it.type = type)
        bySub == IF subtypeGiven(subtype)
                 THEN SelectSeq(pool, LAMBDA it : it.subtype = Val(subtype))
                 ELSE pool
    IN  IF Len(bySub) > 0 THEN {Some(x) : x \in pickRandom(bySub)} ELSE {Null}

\* findAndPick with the criteria filter applied only when no subtype is given
findAndPickSubtypeAnyCriteria(adv, s, type, subtype) ==
    LET pool == SelectSeq(adv, LAMBDA it : it.type = type)
        bySub == IF subtypeGiven(subtype)
                 THEN SelectSeq(pool, LAMBDA it : it.subtype = Val(subtype))
                 ELSE pool
        suitable == IF subtypeGiven(subtype) THEN bySub
                    ELSE SelectSeq(bySub, LAMBDA it : evaluateCriteria(it.criteria, s))
    IN  IF Len(suitable) > 0 THEN {Some(x) : x \in pickRandom(suitable)} ELSE {Null}

\* The possible results of findAndPick(type, subtype) on the cache adv for the
\* summary s: Null, or Some(item).
findAndPick(adv, s, type, subtype) ==
    LET pool == SelectSeq(adv, LAMBDA it : it.type = type)
        bySub == IF subtypeGiven(subtype)
                 THEN SelectSeq(pool, LAMBDA it : it.subtype = Val(subtype))
                 ELSE pool
        suitable == SelectSeq(bySub, LAMBDA it : evaluateCriteria(it.criteria, s))
    IN  IF Len(suitable) > 0 THEN {Some(x) : x \in pickRandom(suitable)} ELSE {Null}

\* One call of findAndPick as the composition made it.
LookupOf(type, subtype, result) ==
    [type |-> type, subtype |-> subtype, result |-> result]

\* One record whose text went into the advice, and the section it went into.
UsedOf(section, item) == [section |-> section, item |-> item]

----------------------------------------------------------------------------
(* generateDetailedAdvice after its await, App.tsx:594-669 *)

\* lines 612-614 with the two tests in the other order
periodTypeOfMonthFirst(periodLabel) ==
    IF includes(periodLabel, MonthMarker) THEN "monthly"
    ELSE IF includes(periodLabel, WeekMarker) THEN "weekly"
    ELSE "daily"

\* lines 612-614
periodTypeOf(periodLabel) ==
    IF includes(periodLabel, WeekMarker) THEN "weekly"
    ELSE IF includes(periodLabel, MonthMarker) THEN "monthly"
    ELSE "daily"

\* lines 648: the tips of any subtype but maintainStrengths, criteria not applied
fallbackTipPool(adv) ==
    SelectSeq(adv, LAMBDA a : a.type = "tip" /\ a.subtype # "maintainStrengths")

\* lines 652-654: `${index + 1}. ${tip}\n`
RECURSIVE numbered(_, _)
numbered(tips, from) ==
    IF tips = <<>> THEN <<>>
    ELSE <<ToString(from) \o ". ">> \o Head(tips) \o <<"\n">>
         \o numbered(Tail(tips), from + 1)

\* lines 661-669 with the g flag of the patterns left out: String.replace
\* then replaces the first occurrence only
substituteFirstOnly(advice, s) ==
    LET r1 == replaceFirst(advice, "{goodWordsCount}", <<ToString(s["goodWordsCount"])>>)
        r2 == replaceFirst(r1, "{badWordsCount}", <<ToString(s["badWordsCount"])>>)
        r3 == replaceFirst(r2, "{goodActions}", <<ToString(s["goodActions"])>>)
        r4 == replaceFirst(r3, "{badActions}", <<ToString(s["badActions"])>>)
        r5 == replaceFirst(r4, "{goodThoughts}", <<ToString(s["goodThoughts"])>>)
        r6 == replaceFirst(r5, "{badThoughts}", <<ToString(s["badThoughts"])>>)
        r7 == replaceFirst(r6, "{happyEvents}", <<ToString(s["happyEvents"])>>)
    IN  replaceFirst(r7, "{toughEvents}", <<ToString(s["toughEvents"])>>)

\* lines 661-669
substitutePlaceholders(advice, s) ==
    LET r1 == replaceAll(advice, "{goodWordsCount}", <<ToString(s["goodWordsCount"])>>)
        r2 == replaceAll(r1, "{badWordsCount}", <<ToString(s["badWordsCount"])>>)
        r3 == replaceAll(r2, "{goodActions}", <<ToString(s["goodActions"])>>)
        r4 == replaceAll(r3, "{badActions}", <<ToString(s["badActions"])>>)
        r5 == replaceAll(r4, "{goodThoughts}", <<ToString(s["goodThoughts"])>>)
        r6 == replaceAll(r5, "{badThoughts}", <<ToString(s["badThoughts"])>>)
        r7 == replaceAll(r6, "{happyEvents}", <<ToString(s["happyEvents"])>>)
    IN  replaceAll(r7, "{toughEvents}", <<ToString(s["toughEvents"])>>)

\* lines 623-628 with the "1. " of the two record branches left out
strengthSectionUnnumbered(strength, fallbackStrength) ==
    IF ~IsNull(strength)
    THEN Val(strength).text \o <<"\n\n">>
    ELSE IF ~IsNull(fallbackStrength)
    THEN Val(fallbackStrength).text \o <<"\n\n">>
    ELSE <<Encouragement, "\n\n">>

\* lines 623-628: what follows the strength heading
strengthSection(strength, fallbackStrength) ==
    IF ~IsNull(strength)
    THEN <<"1. ">> \o Val(strength).text \o <<"\n\n">>
    ELSE IF ~IsNull(fallbackStrength)
    THEN <<"1. ">> \o Val(fallbackStrength).text \o <<"\n\n">>
    ELSE <<Encouragement, "\n\n">>

\* lines 639-650 with the test of line 647 left out: the fallback tip is
\* pushed whenever there is one
tipsOfAlwaysFallback(growth, growthTip, maintainTip, fallbackTip) ==
    LET tips1 == IF (~IsNull(growth)) /\ (~IsNull(growthTip))
                 THEN <<UsedOf("growthTip", Val(growthTip))>> ELSE <<>>
        tips2 == IF ~IsNull(maintainTip)
                 THEN tips1 \o <<UsedOf("maintainTip", Val(maintainTip))>> ELSE tips1
    IN  IF ~IsNull(fallbackTip)
        THEN tips2 \o <<UsedOf("fallbackTip", Val(fallbackTip))>> ELSE tips2

\* lines 639-650: tipsList, each tip with the lookup it came from
tipsOf(growth, growthTip, maintainTip, fallbackTip) ==
    LET tips1 == IF (~IsNull(growth)) /\ (~IsNull(growthTip))
                 THEN <<UsedOf("growthTip", Val(growthTip))>> ELSE <<>>
        tips2 == IF ~IsNull(maintainTip)
                 THEN tips1 \o <<UsedOf("maintainTip", Val(maintainTip))>> ELSE tips1
    IN  IF Len(tips2) = 0 /\ ~IsNull(fallbackTip)
        THEN <<UsedOf("fallbackTip", Val(fallbackTip))>> ELSE tips2

\* the sections with the tips list put before the growth section
assembleTipsBeforeGrowth(introText, strengthText, growthText, tipsList, closingText) ==
    introText \o <<StrengthHeading, "\n">> \o strengthText
    \o <<TipsHeading, "\n">> \o numbered(tipsList, 1) \o <<"\n">>
    \o growthText \o closingText

\* the order of the `advice +=` statements of lines 619-658
assemble(introText, strengthText, growthText, tipsList, closingText) ==
    introText \o <<StrengthHeading, "\n">> \o strengthText \o growthText
    \o <<TipsHeading, "\n">> \o numbered(tipsList, 1) \o <<"\n">>
    \o closingText

\* What one invocation yields: how its promise settled, the string, the cache
\* it read at line 594, the findAndPick calls it made and the records it used.
Outcome(settled, text, adv, lookups, used) ==
    [settled |-> settled, text |-> text, adv |-> adv,
     lookups |-> lookups, used |-> used]

Pending == Outcome("pending", <<>>, Null, <<>>, <<>>)

\* Lines 616-669 for one way the random picks can fall.  Each field of picks
\* is the result of the call of that name where the code makes the call.
compose(adv, s, periodLabel, picks) ==
    LET introP == picks.introP
        introD == picks.introD
        strength == picks.strength
        fallbackStrength == picks.fallbackStrength
        growth == picks.growth
        growthTip == picks.growthTip
        maintainTip == picks.maintainTip
        fallbackTip == picks.fallbackTip
        closing == picks.closing
        periodType == periodTypeOf(periodLabel)
        intro == IF ~IsNull(introP) THEN introP ELSE introD
        introText ==
            IF ~IsNull(intro)
            THEN replaceFirst(Val(intro).text, "{periodLabel}", periodLabel) \o <<"\n\n">>
            ELSE <<>>
        strengthText == strengthSection(strength, fallbackStrength)
        growthText ==
            IF ~IsNull(growth)
            THEN <<GrowthHeading, "\n">> \o Val(growth).text \o <<"\n\n">>
            ELSE <<>>
        tips3 == tipsOf(growth, growthTip, maintainTip, fallbackTip)
        tipsList == [i \in 1..Len(tips3) |-> tips3[i].item.text]
        closingText == IF ~IsNull(closing) THEN Val(closing).text ELSE <<>>
        advice == assemble(introText, strengthText, growthText, tipsList, closingText)
        lookups ==
            <<LookupOf("intro", Some(periodType), introP)>>
            \o (IF IsNull(introP)
                THEN <<LookupOf("intro", Some("default"), introD)>> ELSE <<>>)
            \o <<LookupOf("strength", Null, strength)>>
            \o (IF IsNull(strength)
                THEN <<LookupOf("strength", Some("balance"), fallbackStrength)>>
                ELSE <<>>)
            \o <<LookupOf("growth", Null, growth)>>
            \o (IF ~IsNull(growth)
                THEN <<LookupOf("tip", Some(Val(growth).subtype), growthTip)>>
                ELSE <<>>)
            \o <<LookupOf("tip", Some("maintainStrengths"), maintainTip)>>
            \o <<LookupOf("closing", Null, closing)>>
        used ==
            (IF ~IsNull(intro) THEN <<UsedOf("intro", Val(intro))>> ELSE <<>>)
            \o (IF ~IsNull(strength) THEN <<UsedOf("strength", Val(strength))>>
                ELSE IF ~IsNull(fallbackStrength)
                THEN <<UsedOf("strength", Val(fallbackStrength))>> ELSE <<>>)
            \o (IF ~IsNull(growth) THEN <<UsedOf("growth", Val(growth))>> ELSE <<>>)
            \o tips3
            \o (IF ~IsNull(closing) THEN <<UsedOf("closing", Val(closing))>> ELSE <<>>)
    IN  Outcome("resolved", substitutePlaceholders(advice, s), Some(adv), lookups, used)

\* Every outcome lines 616-669 can have on the cache adv.
composeAll(adv, s, periodLabel) ==
    LET growthAndTip ==
            UNION {{<<g, t>> :
                      t \in IF IsNull(g) THEN {Null}
                            ELSE findAndPick(adv, s, "tip", Some(Val(g).subtype))} :
                   g \in findAndPick(adv, s, "growth", Null)}
        pool == fallbackTipPool(adv)
        fallbackTips == IF Len(pool) > 0 THEN {Some(x) : x \in pickRandom(pool)}
                        ELSE {Null}
    IN  {compose(adv, s, periodLabel,
                 [introP |-> introP, introD |-> introD, strength |-> strength,
                  fallbackStrength |-> fallbackStrength, growth |-> gt[1],
                  growthTip |-> gt[2], maintainTip |-> maintainTip,
                  fallbackTip |-> fallbackTip, closing |-> closing]) :
            introP \in findAndPick(adv, s, "intro", Some(periodTypeOf(periodLabel))),
            introD \in findAndPick(adv, s, "intro", Some("default")),
            strength \in findAndPick(adv, s, "strength", Null),
            fallbackStrength \in findAndPick(adv, s, "strength", Some("balance")),
            gt \in growthAndTip,
            maintainTip \in findAndPick(adv, s, "tip", Some("maintainStrengths")),
            fallbackTip \in fallbackTips,
            closing \in findAndPick(adv, s, "closing", Null)}

\* afterAwait without lines 598-601: the sum of the counters is not looked at
afterAwaitAlwaysComposes(cache, summary, periodLabel) ==
    IF IsNull(cache) \/ IsNull(summary)
    THEN {Outcome("resolved", DataUnavailableMsg, cache, <<>>, <<>>)}
    ELSE composeAll(Val(cache), Val(summary), periodLabel)

\* Lines 594-601 and then the composition: the outcomes of an invocation that
\* reads the cache `cache` (nullable) with the summary `summary` (nullable).
afterAwait(cache, summary, periodLabel) ==
    IF IsNull(cache) \/ IsNull(summary)
    THEN {Outcome("resolved", DataUnavailableMsg, cache, <<>>, <<>>)}
    ELSE IF totalActions(Val(summary)) = 0
    THEN {Outcome("resolved", NoActivityMsg, cache, <<>>, <<>>)}
    ELSE composeAll(Val(cache), Val(summary), periodLabel)

\* The catch of lines 671-674: a rejection inside the try becomes a string.
\* (Without the catch the rejection would reach the caller.)
rethrown == Outcome("rejected", <<>>, Null, <<>>, <<>>)

catchAll == Outcome("resolved", GenerationFailedMsg, Null, <<>>, <<>>)

----------------------------------------------------------------------------
(* The inputs: sheets, summaries, period labels *)

\* The rows a sheet is drawn from: every type, the subtypes the composition
\* asks for, criteria that hold for some summaries and fail for others, a
\* text with every counter placeholder (one of them twice, one inside the
\* pieces of another), and one row the parser drops (no criteria).
SheetRows ==
    << Row("intro", "weekly", <<"weekly intro ", "{periodLabel}">>, <<"ALWAYS_MATCH">>),
       Row("intro", "default", <<"default intro">>, <<"goodThoughts", ">", "0">>),
       Row("strength", "balance", <<"balanced ", "{goodThoughts}">>,
           <<"goodThoughts", ">=", "badThoughts">>),
       Row("strength", "positive", <<"positive">>, <<"goodThoughts", ">", "1">>),
       Row("growth", "negThoughts", <<"fewer ", "{badThoughts}">>,
           <<"badThoughts", ">", "0">>),
       Row("tip", "negThoughts", <<"tip for thoughts">>, <<"badThoughts", ">", "1">>),
       Row("tip", "maintainStrengths", <<"keep going">>, <<"goodThoughts", ">", "0">>),
       Row("tip", "rest", <<"rest well">>, <<"badThoughts", ">", "5">>),
       Row("closing", "general",
           <<"see you ", "{goodWordsCount}", "{badWordsCount}", "{goodActions}",
             "{badActions}", "{goodThoughts}", "{badThoughts}", "{happyEvents}",
             "{toughEvents}", "{toughEvents}", "{good", "{badActions}", "Thoughts}">>,
           <<"ALWAYS_MATCH">>),
       Row("closing", "calm", <<"stay calm">>, <<"badThoughts", "==", "0">>),
       Row("tip", "negThoughts", <<"no criteria">>, <<"">>) >>

RECURSIVE rowsAt(_, _)
rowsAt(picked, i) ==
    IF i > Len(SheetRows) THEN <<>>
    ELSE (IF i \in picked THEN <<SheetRows[i]>> ELSE <<>>) \o rowsAt(picked, i + 1)

\* The sheets of at most n rows, the rows in the order of SheetRows.
SheetsUpTo(n) ==
    {rowsAt(picked, 1) :
        picked \in {p \in SUBSET (1..Len(SheetRows)) : Cardinality(p) <= n}}

\* The sheets of Spec: no row, a row of which the parser keeps nothing, and a
\* tip with a closing.
ServiceSheets ==
    { <<>>, <<SheetRows[11]>>, <<SheetRows[8], SheetRows[10]>> }

\* The summaries of SpecCompose: the two thought counters range, the rest are 0.
ComposeSummaries ==
    {[f \in Fields |-> IF f = "goodThoughts" THEN g
                       ELSE IF f = "badThoughts" THEN b ELSE 0] :
        g \in 0..MaxCount, b \in 0..MaxCount}

\* The summaries of Spec: null, all counters 0, and a day with one good thought.
ServiceSummaries ==
    {Null, Some(ZeroSummary), Some([ZeroSummary EXCEPT !["goodThoughts"] = 1])}

\* Period labels: a day, a week, a month, and a week of a month.
PeriodLabels ==
    { <<"day">>, <<"this ", WeekMarker>>, <<"1", MonthMarker>>,
      <<"1", MonthMarker, " 2", WeekMarker>> }

\* The period labels of Spec: a day and a week.
ServiceLabels == { <<"day">>, <<"this ", WeekMarker>> }

----------------------------------------------------------------------------
(* The advice service: state *)

CallIds == 1..MaxCalls

IdleCall ==
    [pc |-> "idle", summary |-> Null, periodLabel |-> <<>>, awaiting |-> 0,
     out |-> Pending]

\* The fetches that have not settled: awaiting fetch() or response.text().
InFlight == {f \in 1..Len(net) : net[f] \in {"response", "text"}}

\* The invocations made so far.
Issued == {c \in CallIds : calls[c].pc # "idle"}

\* The invocations suspended at line 592 on the promise of fetch f.
Awaiting(f) == {c \in CallIds : calls[c].pc = "awaiting" /\ calls[c].awaiting = f}

\* One AdviceCoach instance: its three state hooks, where handleGetAdvice
\* stands, and the invocation of generateDetailedAdvice it awaits.
IdleCoach ==
    [advice |-> Null, isLoading |-> FALSE, error |-> Null, pc |-> "idle", call |-> 0]

\* getInitialLogs with nothing saved: {}
NoLogs == [d \in {} |-> 0]

RestInit0 ==
    /\ criteriaStr = <<"">>
    /\ critSummary = ZeroSummary
    /\ verdict = "pending"
    /\ currentDate = 0
    /\ allLogs = NoLogs
    /\ changes = 0
    /\ lastChange = Null

AdInit0 ==
    /\ adSheet = <<>>
    /\ allAds = Null
    /\ adIsFetching = FALSE
    /\ adFetchPromise = 0
    /\ adNet = <<>>
    /\ adCalls = <<>>

AdviceInit0 ==
    /\ allAdvice = Null
    /\ isFetching = FALSE
    /\ fetchPromise = 0
    /\ net = <<>>
    /\ calls = [c \in CallIds |-> IdleCall]

Init ==
    /\ sheet \in ServiceSheets
    /\ AdviceInit0
    /\ AdInit0
    /\ coaches = [k \in CallIds |-> IdleCoach]
    /\ RestInit0

----------------------------------------------------------------------------
(* fetchAndParseAdviceData, App.tsx:508-545 *)

\* line 510 with the guard dropped: every call starts a fetch of its own
joinsAlways == FALSE

\* line 510: if (isFetching && fetchPromise) return fetchPromise;
joinsInFlight == isFetching /\ fetchPromise # 0

\* lines 535-538 as the ads service has them: the cache is set to the empty list
catchSetsEmpty == Some(<<>>)

\* lines 535-538: allAdvice = null; throw error;
catchSets == Null

\* The whole synchronous part of generateDetailedAdvice(summary, periodLabel),
\* lines 589-593 and, when the cache is loaded, the rest of the function.
invoke(c, summary, periodLabel) ==
    /\ calls[c].pc = "idle"
    \* invocations are numbered in the order they are made
    /\ \A d \in CallIds : d < c => calls[d].pc # "idle"
    /\ IF ~IsNull(allAdvice)
       THEN \* line 591 false: no await, the function runs to its end
            /\ \E o \in afterAwait(allAdvice, summary, periodLabel) :
                  calls' = [calls EXCEPT ![c] =
                      [pc |-> "done", summary |-> summary,
                       periodLabel |-> periodLabel, awaiting |-> 0, out |-> o]]
            /\ UNCHANGED <<allAdvice, isFetching, fetchPromise, net>>
       ELSE IF joinsInFlight
       THEN \* line 510: await the promise of the fetch in flight
            /\ calls' = [calls EXCEPT ![c] =
                  [pc |-> "awaiting", summary |-> summary,
                   periodLabel |-> periodLabel, awaiting |-> fetchPromise,
                   out |-> Pending]]
            /\ UNCHANGED <<allAdvice, isFetching, fetchPromise, net>>
       ELSE \* lines 512-518: start the fetch and await its promise
            /\ isFetching' = TRUE
            /\ net' = Append(net, "response")
            /\ fetchPromise' = Len(net) + 1
            /\ calls' = [calls EXCEPT ![c] =
                  [pc |-> "awaiting", summary |-> summary,
                   periodLabel |-> periodLabel, awaiting |-> Len(net) + 1,
                   out |-> Pending]]
            /\ UNCHANGED allAdvice

\* generateDetailedAdvice(summary, periodLabel) called by anything but a coach.
generateDetailedAdvice(c, summary, periodLabel) ==
    /\ invoke(c, summary, periodLabel)
    /\ UNCHANGED <<sheet, adSheet, allAds, adIsFetching, adFetchPromise, adNet, adCalls>>
    /\ UNCHANGED <<coaches, restVars>>

\* Lines 535-542 and then line 671 in every invocation that awaits fetch f:
\* the fetch promise rejects, each awaiting invocation catches the rejection.
fetchFails(f) ==
    /\ allAdvice' = catchSets
    /\ isFetching' = FALSE
    /\ fetchPromise' = 0
    /\ net' = [net EXCEPT ![f] = "failed"]
    /\ calls' = [c \in CallIds |->
          IF c \in Awaiting(f)
          THEN [calls[c] EXCEPT !.pc = "done", !.out = catchAll]
          ELSE calls[c]]

\* fetch() rejects (no network), or the response is not OK (line 519).
FetchRejectsOrNotOk ==
    /\ \E f \in 1..Len(net) :
          /\ net[f] = "response"
          /\ fetchFails(f)
    /\ UNCHANGED <<sheet, adSheet, allAds, adIsFetching, adFetchPromise, adNet, adCalls>>
    /\ UNCHANGED <<coaches, restVars>>

\* fetch() resolves with an OK response: line 522 awaits response.text().
FetchResponseOk ==
    /\ \E f \in 1..Len(net) :
          /\ net[f] = "response"
          /\ net' = [net EXCEPT ![f] = "text"]
    /\ UNCHANGED <<allAdvice, isFetching, fetchPromise, calls>>
    /\ UNCHANGED <<sheet, adSheet, allAds, adIsFetching, adFetchPromise, adNet, adCalls>>
    /\ UNCHANGED <<coaches, restVars>>

\* response.text() rejects (the connection drops while the body is read).
TextRejects ==
    /\ \E f \in 1..Len(net) :
          /\ net[f] = "text"
          /\ fetchFails(f)
    /\ UNCHANGED <<sheet, adSheet, allAds, adIsFetching, adFetchPromise, adNet, adCalls>>
    /\ UNCHANGED <<coaches, restVars>>

\* response.text() resolves: lines 524-534 parse the rows, lines 540-541 reset
\* the guard, and every invocation awaiting the promise runs lines 594-669.
TextArrives ==
    /\ \E f \in 1..Len(net) :
          /\ net[f] = "text"
          /\ allAdvice' = Some(parseRows(sheet))
          /\ isFetching' = FALSE
          /\ fetchPromise' = 0
          /\ net' = [net EXCEPT ![f] = "loaded"]
          /\ LET W == Awaiting(f)
                 outs(c) == afterAwait(allAdvice', calls[c].summary, calls[c].periodLabel)
             IN  \E pick \in [W -> UNION {outs(c) : c \in W}] :
                    /\ \A c \in W : pick[c] \in outs(c)
                    /\ calls' = [c \in CallIds |->
                          IF c \in W
                          THEN [calls[c] EXCEPT !.pc = "done", !.out = pick[c]]
                          ELSE calls[c]]
    /\ UNCHANGED <<sheet, adSheet, allAds, adIsFetching, adFetchPromise, adNet, adCalls>>
    /\ UNCHANGED <<coaches, restVars>>

Network ==
    \/ FetchRejectsOrNotOk
    \/ FetchResponseOk
    \/ TextRejects
    \/ TextArrives

Next ==
    \/ \E c \in CallIds, s \in ServiceSummaries, l \in ServiceLabels :
          generateDetailedAdvice(c, s, l)
    \/ Network

Spec == Init /\ [][Next]_vars

\* The composition on every sheet: one invocation, any summary, any label.
InitCompose ==
    /\ sheet \in SheetsUpTo(MaxRows)
    /\ AdviceInit0
    /\ AdInit0
    /\ coaches = [k \in CallIds |-> IdleCoach]
    /\ RestInit0

NextCompose ==
    \/ \E s \in ComposeSummaries, l \in PeriodLabels :
          generateDetailedAdvice(1, Some(s), l)
    \/ Network

SpecCompose == InitCompose /\ [][NextCompose]_vars

----------------------------------------------------------------------------
(* The ads service, src/services/geminiService.ts *)

AdCallIds == 1..MaxAdCalls

\* A row as parseCsvRow returns it: [text, link].
AdRow(text, link) == [text |-> text, link |-> link]

\* The sheets of SpecAds: no row, one ad, an ad and a row without a link, and
\* a row without a link alone.
AdSheets ==
    { <<>>,
      <<AdRow("ad one", "https://one")>>,
      <<AdRow("ad one", "https://one"), AdRow("ad two", "")>>,
      <<AdRow("ad two", "")>> }

\* lines 68-78: if (text && link) parsedAds.push({ text, link })
parseAdRows(rows) == SelectSeq(rows, LAMBDA r : r.text # "" /\ r.link # "")

AdOutcome(settled, ads) == [settled |-> settled, ads |-> ads]

IdleAdCall == [pc |-> "idle", awaiting |-> 0, out |-> AdOutcome("pending", <<>>)]

AdAwaiting(f) ==
    {c \in AdCallIds : adCalls[c].pc = "awaiting" /\ adCalls[c].awaiting = f}

InitAds ==
    /\ sheet = <<>>
    /\ AdviceInit0
    /\ adSheet \in AdSheets
    /\ allAds = Null
    /\ adIsFetching = FALSE
    /\ adFetchPromise = 0
    /\ adNet = <<>>
    /\ adCalls = [c \in AdCallIds |-> IdleAdCall]
    /\ coaches = [k \in CallIds |-> IdleCoach]
    /\ RestInit0

\* line 54 with the guard dropped
adJoinsAlways == FALSE

\* line 54: if (isFetching && fetchPromise) return fetchPromise;
adJoinsInFlight == adIsFetching /\ adFetchPromise # 0

\* lines 79-82 as the advice service has them: the cache stays null
adCatchSetsNull == Null

\* lines 79-82: allAds = []; // Set to empty on error to prevent refetching
adCatchSets == Some(<<>>)

\* line 96: return allAds || [];
adsOrEmpty(cache) == IF IsNull(cache) THEN <<>> ELSE Val(cache)

\* The synchronous part of fetchAds(), lines 91-97 with lines 52-58.
fetchAds(c) ==
    /\ adCalls[c].pc = "idle"
    \* invocations are numbered in the order they are made
    /\ \A d \in AdCallIds : d < c => adCalls[d].pc # "idle"
    /\ IF ~IsNull(allAds)
       THEN \* line 93 false: return allAds || []
            /\ adCalls' = [adCalls EXCEPT ![c] =
                  [pc |-> "done", awaiting |-> 0,
                   out |-> AdOutcome("resolved", adsOrEmpty(allAds))]]
            /\ UNCHANGED <<allAds, adIsFetching, adFetchPromise, adNet>>
       ELSE IF adJoinsInFlight
       THEN /\ adCalls' = [adCalls EXCEPT ![c] =
                  [pc |-> "awaiting", awaiting |-> adFetchPromise,
                   out |-> AdOutcome("pending", <<>>)]]
            /\ UNCHANGED <<allAds, adIsFetching, adFetchPromise, adNet>>
       ELSE /\ adIsFetching' = TRUE
            /\ adNet' = Append(adNet, "response")
            /\ adFetchPromise' = Len(adNet) + 1
            /\ adCalls' = [adCalls EXCEPT ![c] =
                  [pc |-> "awaiting", awaiting |-> Len(adNet) + 1,
                   out |-> AdOutcome("pending", <<>>)]]
            /\ UNCHANGED allAds
    /\ UNCHANGED <<adSheet, sheet, allAdvice, isFetching, fetchPromise, net, calls>>
    /\ UNCHANGED <<coaches, restVars>>

\* Lines 79-86: the fetch promise rejects; fetchAds has no catch, so every
\* invocation awaiting it rejects too.
adFetchFails(f) ==
    /\ allAds' = adCatchSets
    /\ adIsFetching' = FALSE
    /\ adFetchPromise' = 0
    /\ adNet' = [adNet EXCEPT ![f] = "failed"]
    /\ adCalls' = [c \in AdCallIds |->
          IF c \in AdAwaiting(f)
          THEN [adCalls[c] EXCEPT !.pc = "done", !.out = AdOutcome("rejected", <<>>)]
          ELSE adCalls[c]]

\* fetch() rejects, or the response is not OK (line 63).
AdFetchRejectsOrNotOk ==
    /\ \E f \in 1..Len(adNet) :
          /\ adNet[f] = "response"
          /\ adFetchFails(f)
    /\ UNCHANGED <<adSheet, sheet, allAdvice, isFetching, fetchPromise, net, calls>>
    /\ UNCHANGED <<coaches, restVars>>

\* fetch() resolves with an OK response: line 66 awaits response.text().
AdFetchResponseOk ==
    /\ \E f \in 1..Len(adNet) :
          /\ adNet[f] = "response"
          /\ adNet' = [adNet EXCEPT ![f] = "text"]
    /\ UNCHANGED <<allAds, adIsFetching, adFetchPromise, adCalls>>
    /\ UNCHANGED <<adSheet, sheet, allAdvice, isFetching, fetchPromise, net, calls>>
    /\ UNCHANGED <<coaches, restVars>>

\* response.text() rejects.
AdTextRejects ==
    /\ \E f \in 1..Len(adNet) :
          /\ adNet[f] = "text"
          /\ adFetchFails(f)
    /\ UNCHANGED <<adSheet, sheet, allAdvice, isFetching, fetchPromise, net, calls>>
    /\ UNCHANGED <<coaches, restVars>>

\* response.text() resolves: lines 68-78 parse, lines 84-85 reset the guard,
\* and every invocation awaiting the promise returns at line 96.
AdTextArrives ==
    /\ \E f \in 1..Len(adNet) :
          /\ adNet[f] = "text"
          /\ allAds' = Some(parseAdRows(adSheet))
          /\ adIsFetching' = FALSE
          /\ adFetchPromise' = 0
          /\ adNet' = [adNet EXCEPT ![f] = "loaded"]
          /\ adCalls' = [c \in AdCallIds |->
                IF c \in AdAwaiting(f)
                THEN [adCalls[c] EXCEPT !.pc = "done",
                          !.out = AdOutcome("resolved", adsOrEmpty(allAds'))]
                ELSE adCalls[c]]
    /\ UNCHANGED <<adSheet, sheet, allAdvice, isFetching, fetchPromise, net, calls>>
    /\ UNCHANGED <<coaches, restVars>>

NextAds ==
    \/ \E c \in AdCallIds : fetchAds(c)
    \/ AdFetchRejectsOrNotOk
    \/ AdFetchResponseOk
    \/ AdTextRejects
    \/ AdTextArrives

SpecAds == InitAds /\ [][NextAds]_vars

----------------------------------------------------------------------------
(* Claims about the advice cache and its fetch (Spec) *)

\* No fetch has settled yet: every fetch started is still in flight.
NoneSettled == \A f \in 1..Len(net) : net[f] \in {"response", "text"}

\* C1: at no time are two advice fetches in flight; and while no fetch has
\* settled, however many invocations were made, exactly one fetch was started
\* and every one of those invocations awaits that fetch.
C1_SingleFlight ==
    /\ Cardinality(InFlight) <= 1
    /\ (NoneSettled /\ Issued # {}) =>
          /\ Len(net) = 1
          /\ \A c \in Issued : calls[c].pc = "awaiting" /\ calls[c].awaiting = 1

\* Several invocations suspended on the one fetch, which is still in flight.
C1_Witness ==
    /\ Cardinality(Awaiting(1)) >= 2
    /\ InFlight = {1}

\* C2: an invocation that has settled has resolved to a string; none rejects,
\* whatever the summary (null too), the label and the outcome of the fetch.
C2_NeverRejects ==
    \A c \in CallIds :
        /\ calls[c].out.settled # "rejected"
        /\ calls[c].pc = "done" =>
              /\ calls[c].out.settled = "resolved"
              /\ calls[c].out.text # <<>>

\* Two invocations shared a fetch that failed, one of them with a null summary.
C2_Witness ==
    \E c, d \in CallIds :
        /\ c # d
        /\ calls[c].pc = "done" /\ calls[d].pc = "done"
        /\ calls[c].awaiting # 0 /\ calls[c].awaiting = calls[d].awaiting
        /\ net[calls[c].awaiting] = "failed"
        /\ IsNull(calls[c].summary) /\ ~IsNull(calls[d].summary)

\* C3: an invocation with a summary whose fetch failed returns the
\* data-unavailable message.
C3_FailedFetchGivesUnavailable ==
    \A c \in CallIds :
        (/\ calls[c].pc = "done"
         /\ calls[c].awaiting # 0
         /\ net[calls[c].awaiting] = "failed"
         /\ ~IsNull(calls[c].summary))
        => calls[c].out.text = DataUnavailableMsg

\* C4: an invocation with a summary that reads a cache loaded with no record
\* returns the data-unavailable message.
C4_EmptyDatasetGivesUnavailable ==
    \A c \in CallIds :
        (/\ calls[c].pc = "done"
         /\ calls[c].out.adv = Some(<<>>)
         /\ ~IsNull(calls[c].summary))
        => calls[c].out.text = DataUnavailableMsg

\* C5 as stated: once a fetch has failed no other fetch is started, that is,
\* a failed fetch is the last fetch.
C5_NoRetryAfterFailure ==
    \A f \in 1..Len(net) : net[f] = "failed" => f = Len(net)

\* C5 amended: a failed fetch leaves the cache unloaded and no fetch in flight,
\* and the next invocation starts a new fetch and awaits it.
C5_RetryOnNextCall ==
    /\ [](\A f \in 1..Len(net) :
             (net[f] = "failed" /\ f = Len(net)) =>
                 IsNull(allAdvice) /\ ~isFetching /\ fetchPromise = 0)
    /\ [][(/\ Len(net) > 0
           /\ net[Len(net)] = "failed"
           /\ Issued' # Issued)
          => /\ Len(net') = Len(net) + 1
             /\ net'[Len(net')] = "response"
             /\ \A c \in Issued' \ Issued :
                   calls'[c].pc = "awaiting" /\ calls'[c].awaiting = Len(net')]_vars

\* A fetch failed and a later invocation started the next one.
C5_Witness ==
    /\ Len(net) >= 2
    /\ net[1] = "failed"
    /\ \E c \in CallIds : calls[c].awaiting = 2

\* C7: once the cache is loaded its contents never change and no fetch is
\* started; every invocation that read a loaded cache read the present one.
C7_WriteOnce ==
    /\ [][(~IsNull(allAdvice)) =>
             (allAdvice' = allAdvice /\ Len(net') = Len(net))]_vars
    /\ [](\A c \in CallIds :
             (calls[c].pc = "done" /\ ~IsNull(calls[c].out.adv)) =>
                 calls[c].out.adv = allAdvice)

\* The cache is loaded with a record; one invocation read it after awaiting the
\* fetch, another was made later and read it without a fetch.
C7_Witness ==
    /\ ~IsNull(allAdvice)
    /\ Len(Val(allAdvice)) > 0
    /\ Len(net) = 1
    /\ \E c, d \in CallIds :
          /\ calls[c].pc = "done" /\ calls[c].awaiting = 1
          /\ calls[d].pc = "done" /\ calls[d].awaiting = 0
          /\ calls[c].out.adv = allAdvice /\ calls[d].out.adv = allAdvice

----------------------------------------------------------------------------
(* Claims about the ads cache (SpecAds) *)

\* C6: at most one fetch of the ads sheet is ever started; after a failed
\* fetch the cache is the empty list, and an invocation made after the failure
\* (it found the cache set, so it awaited nothing) resolves to the empty list.
C6_AdsFetchedOnce ==
    /\ Len(adNet) <= 1
    /\ adNet = <<"failed">> => allAds = Some(<<>>)
    /\ \A c \in AdCallIds :
          (adNet = <<"failed">> /\ adCalls[c].pc = "done" /\ adCalls[c].awaiting = 0)
          => adCalls[c].out = AdOutcome("resolved", <<>>)

\* The fetch failed under two invocations and two more were made afterwards.
C6_Witness ==
    /\ adNet = <<"failed">>
    /\ Cardinality({c \in AdCallIds :
                      adCalls[c].pc = "done" /\ adCalls[c].awaiting = 1}) >= 2
    /\ Cardinality({c \in AdCallIds :
                      adCalls[c].pc = "done" /\ adCalls[c].awaiting = 0}) >= 2

----------------------------------------------------------------------------
(* Claims about the composition (SpecCompose) *)

\* The invocations that ran lines 594-669 on a loaded cache with a summary.
Composed ==
    {c \in CallIds :
        /\ calls[c].pc = "done"
        /\ ~IsNull(calls[c].out.adv)
        /\ ~IsNull(calls[c].summary)}

\* The records of the cache adv that findAndPick(type, subtype) may return for
\* the summary s, said directly: right type, right subtype if one is asked
\* for, criteria true.
Eligible(adv, s, type, subtype) ==
    {adv[k] : k \in {j \in 1..Len(adv) :
        /\ adv[j].type = type
        /\ (IsNull(subtype) \/ adv[j].subtype = Val(subtype))
        /\ evaluateCriteria(adv[j].criteria, s)}}

\* C8: on a loaded cache, an invocation whose summary sums to zero returns the
\* no-activity message, whatever the records, and makes no findAndPick call
\* and uses no record.
C8_ZeroSumNoActivity ==
    \A c \in Composed :
        totalActions(Val(calls[c].summary)) = 0 =>
            /\ calls[c].out.text = NoActivityMsg
            /\ calls[c].out.lookups = <<>>
            /\ calls[c].out.used = <<>>

\* A zero summary met a cache of several records, one of them always matching.
C8_Witness ==
    \E c \in Composed :
        /\ totalActions(Val(calls[c].summary)) = 0
        /\ Len(Val(calls[c].out.adv)) >= 2
        /\ \E k \in 1..Len(Val(calls[c].out.adv)) :
              Val(calls[c].out.adv)[k].criteria = <<"ALWAYS_MATCH">>
        /\ calls[c].out.text = NoActivityMsg

\* C9: every findAndPick call of a composition returned null or a record of
\* the cache of the requested type, of the requested subtype when one was
\* given, whose criteria holds of the summary; null exactly when there is none.
C9_FindAndPickSound ==
    \A c \in Composed :
        \A i \in 1..Len(calls[c].out.lookups) :
            LET lk == calls[c].out.lookups[i]
                ok == Eligible(Val(calls[c].out.adv), Val(calls[c].summary),
                               lk.type, lk.subtype)
            IN  /\ IsNull(lk.result) <=> ok = {}
                /\ ~IsNull(lk.result) => Val(lk.result) \in ok

\* One composition in which a lookup returned a record, a lookup with a subtype
\* returned null although a record of that type and subtype is cached (its
\* criteria fails), and a lookup returned null for want of any record.
C9_Witness ==
    \E c \in Composed :
        LET lks == calls[c].out.lookups
            adv == Val(calls[c].out.adv)
        IN  /\ \E i \in 1..Len(lks) : ~IsNull(lks[i].result)
            /\ \E i \in 1..Len(lks) :
                  /\ IsNull(lks[i].result)
                  /\ ~IsNull(lks[i].subtype)
                  /\ \E k \in 1..Len(adv) :
                        /\ adv[k].type = lks[i].type
                        /\ adv[k].subtype = Val(lks[i].subtype)
            /\ \E i \in 1..Len(lks) :
                  /\ IsNull(lks[i].result)
                  /\ \A k \in 1..Len(adv) : adv[k].type # lks[i].type

\* C10 as stated: every record whose text is in the composed advice has a
\* criteria that holds of the summary.
C10_EveryUsedRecordMatches ==
    \A c \in Composed :
        \A i \in 1..Len(calls[c].out.used) :
            evaluateCriteria(calls[c].out.used[i].item.criteria, Val(calls[c].summary))

\* C10 amended: every record used as intro, strength, growth, closing or as a
\* tip found by findAndPick has a criteria that holds of the summary; the
\* fallback tip, used only when the tips list is otherwise empty, is any tip
\* of the cache that is not a maintainStrengths tip, its criteria not applied.
C10_PickedRecordsMatch ==
    \A c \in Composed :
        LET used == calls[c].out.used
            s == Val(calls[c].summary)
            adv == Val(calls[c].out.adv)
        IN  \A i \in 1..Len(used) :
                IF used[i].section = "fallbackTip"
                THEN /\ used[i].item.type = "tip"
                     /\ used[i].item.subtype # "maintainStrengths"
                     /\ \E k \in 1..Len(adv) : adv[k] = used[i].item
                     /\ \A j \in 1..Len(used) :
                           j # i => used[j].section \notin {"growthTip", "maintainTip"}
                ELSE evaluateCriteria(used[i].item.criteria, s)

\* A composition that used a fallback tip whose criteria fails, next to records
\* picked by findAndPick.
C10_Witness ==
    \E c \in Composed :
        LET used == calls[c].out.used
        IN  /\ Len(used) >= 3
            /\ \E i \in 1..Len(used) :
                  /\ used[i].section = "fallbackTip"
                  /\ ~evaluateCriteria(used[i].item.criteria, Val(calls[c].summary))

----------------------------------------------------------------------------
(* evaluateCriteria on its own (SpecCriteria) *)

\* The tokens a criteria string is made of: field names, an inherited name, a
\* name of nothing, operators the switch knows and one it does not, a number,
\* the sentinel, and the empty token two adjacent spaces (or a space at an
\* end) leave in split(' ').
CriteriaTokens ==
    {"goodThoughts", "badThoughts", "toString", "nope",
     ">=", "==", "~", "1", "ALWAYS_MATCH", ""}

RECURSIVE TokenSeqs(_)
TokenSeqs(n) ==
    IF n = 0 THEN {<<>>}
    ELSE {Append(c, tok) : c \in TokenSeqs(n - 1), tok \in CriteriaTokens}

\* The criteria strings of 1 to MaxTokens tokens.
CriteriaInputs == UNION {TokenSeqs(n) : n \in 1..MaxTokens}

InitCriteria ==
    /\ criteriaStr \in CriteriaInputs
    /\ critSummary \in ComposeSummaries
    /\ verdict = "pending"
    /\ currentDate = 0
    /\ allLogs = NoLogs
    /\ changes = 0
    /\ lastChange = Null
    /\ sheet = <<>>
    /\ AdviceInit0
    /\ AdInit0
    /\ coaches = [k \in CallIds |-> IdleCoach]

\* evaluateCriteria(criteria, summary) returns.  No step of it can throw:
\* split, in, Number and the comparisons are total on strings and objects.
Evaluate ==
    /\ verdict = "pending"
    /\ verdict' = IF evaluateCriteria(criteriaStr, critSummary) THEN "true" ELSE "false"
    /\ UNCHANGED <<criteriaStr, critSummary, currentDate, allLogs, changes, lastChange>>
    /\ UNCHANGED <<sheet, allAdvice, isFetching, fetchPromise, net, calls, coaches>>
    /\ UNCHANGED <<adSheet, allAds, adIsFetching, adFetchPromise, adNet, adCalls>>

NextCriteria == Evaluate

SpecCriteria == InitCriteria /\ [][NextCriteria]_vars

----------------------------------------------------------------------------
(* Claims about evaluateCriteria (SpecCriteria) *)

ComparisonOperators == {">", "<", ">=", "<=", "=="}

\* A numeric literal: a token that is a number as written.
NumericLiterals == DOMAIN NumberOf \ {""}

\* Malformed as the claim lists it: not empty, not the sentinel, and a token
\* count other than 3, or a left token that is no field name, or a right token
\* that is neither a number nor a field name, or an unknown operator.
Malformed(c) ==
    /\ c # <<"">>
    /\ c # <<"ALWAYS_MATCH">>
    /\ \/ Len(c) # 3
       \/ c[1] \notin Fields
       \/ c[3] \notin (NumericLiterals \cup Fields)
       \/ c[2] \notin ComparisonOperators

\* C11: evaluateCriteria returns false for every malformed criteria.
C11_MalformedNeverMatches ==
    (verdict # "pending" /\ Malformed(criteriaStr)) => verdict = "false"

----------------------------------------------------------------------------
(* Claims about the sections of a composed advice (SpecCompose) *)

\* The invocations that composed: loaded cache, summary with a non-zero sum.
NonZeroComposed ==
    {c \in Composed : totalActions(Val(calls[c].summary)) # 0}

\* The index of the first token tok of text, 0 if there is none.
PosOf(text, tok) ==
    IF includes(text, tok)
    THEN CHOOSE k \in 1..Len(text) : text[k] = tok /\ \A j \in 1..(k - 1) : text[j] # tok
    ELSE 0

\* How many tokens of text are tok.
CountOf(text, tok) == Cardinality({k \in 1..Len(text) : text[k] = tok})

\* The tokens that open a numbered item: "1. ", "2. ", ...
NumberTok(n) == ToString(n) \o ". "
NumberToks == {NumberTok(n) : n \in 1..(Len(SheetRows) + 1)}

\* The numbering tokens of text, in order.
NumbersOf(text) == SelectSeq(text, LAMBDA tok : tok \in NumberToks)

\* What follows the strength heading up to the next heading.
StrengthSectionOf(text) ==
    LET from == PosOf(text, StrengthHeading)
        to == IF includes(text, GrowthHeading) THEN PosOf(text, GrowthHeading)
              ELSE PosOf(text, TipsHeading)
    IN  SubSeq(text, from + 1, to - 1)

\* What follows the tips heading.
TipsSectionOf(text) == SubSeq(text, PosOf(text, TipsHeading) + 1, Len(text))

\* The records the composition c used in the section of that name.
UsedIn(c, section) ==
    SelectSeq(calls[c].out.used, LAMBDA u : u.section = section)

\* C12 as stated: the strength section of every composed advice has exactly
\* one numbered item, the encouragement sentence included.
C12_StrengthAlwaysNumbered ==
    \A c \in NonZeroComposed :
        NumbersOf(StrengthSectionOf(calls[c].out.text)) = <<NumberTok(1)>>

\* C12 amended: the strength section of every composed advice has exactly one
\* item; the item is numbered "1. " when it is a strength record, and it is
\* the encouragement sentence without a number when no strength record matched.
C12_StrengthOneItem ==
    \A c \in NonZeroComposed :
        LET sec == StrengthSectionOf(calls[c].out.text)
            recs == UsedIn(c, "strength")
        IN  IF recs # <<>>
            THEN /\ Len(recs) = 1
                 /\ NumbersOf(sec) = <<NumberTok(1)>>
                 /\ sec[2] = NumberTok(1)
                 /\ Len(sec) = Len(recs[1].item.text) + 3
                 /\ ~includes(sec, Encouragement)
            ELSE /\ NumbersOf(sec) = <<>>
                 /\ sec = <<"\n", Encouragement, "\n\n">>

\* A composition on a cache that holds a strength record whose criteria fails:
\* the strength section is the encouragement sentence.
C12_Witness ==
    \E c \in NonZeroComposed :
        /\ UsedIn(c, "strength") = <<>>
        /\ \E k \in 1..Len(Val(calls[c].out.adv)) :
              Val(calls[c].out.adv)[k].type = "strength"
        /\ includes(StrengthSectionOf(calls[c].out.text), Encouragement)

\* C13: the tips section of every composed advice has at least one numbered
\* entry, and its entries are numbered 1, 2, ... in order.
C13_TipsAtLeastOne ==
    \A c \in NonZeroComposed :
        LET nums == NumbersOf(TipsSectionOf(calls[c].out.text))
        IN  /\ Len(nums) >= 1
            /\ \A i \in 1..Len(nums) : nums[i] = NumberTok(i)

\* The counter placeholders: {goodWordsCount}, ..., {toughEvents}.
PlaceholderOf(f) == "{" \o f \o "}"
Placeholders == {PlaceholderOf(f) : f \in Fields}

\* The characters of the tokens text[i..j] as one string.
RECURSIVE Join(_, _, _)
Join(text, i, j) == IF i > j THEN "" ELSE text[i] \o Join(text, i + 1, j)

\* A record text with every placeholder token replaced by the decimal value
\* of its counter in s, said directly.
Filled(text, s) ==
    [i \in 1..Len(text) |->
        IF text[i] \in Placeholders
        THEN ToString(s[CHOOSE f \in Fields : PlaceholderOf(f) = text[i]])
        ELSE text[i]]

\* part occurs in text as consecutive tokens.
Occurs(part, text) ==
    \E off \in 0..(Len(text) - Len(part)) :
        SubSeq(text, off + 1, off + Len(part)) = part

\* C14: a composed advice holds no counter placeholder, neither as written in
\* a record nor put together from the pieces around a replaced one, and the
\* text of every record used after the intro is in it with each placeholder
\* replaced by the decimal value of its counter.
C14_NoPlaceholderLeft ==
    \A c \in NonZeroComposed :
        LET text == calls[c].out.text
            s == Val(calls[c].summary)
        IN  /\ \A i \in 1..Len(text) : \A j \in i..Len(text) :
                  j - i <= 2 => Join(text, i, j) \notin Placeholders
            /\ \A k \in 1..Len(calls[c].out.used) :
                  calls[c].out.used[k].section # "intro" =>
                      Occurs(Filled(calls[c].out.used[k].item.text, s), text)

\* A composition that used a record in which one placeholder stands twice and
\* another stands inside the pieces of a third, and a record with the
\* placeholder of a counter that is 2.
C14_Witness ==
    \E c \in NonZeroComposed :
        /\ \E k \in 1..Len(calls[c].out.used) :
              LET txt == calls[c].out.used[k].item.text
              IN  /\ CountOf(txt, "{toughEvents}") = 2
                  /\ Occurs(<<"{good", "{badActions}", "Thoughts}">>, txt)
        /\ \E k \in 1..Len(calls[c].out.used) :
              /\ includes(calls[c].out.used[k].item.text, "{badThoughts}")
              /\ calls[c].out.used[k].section = "growth"
        /\ Val(calls[c].summary)["badThoughts"] = 2
        /\ Occurs(<<"fewer ", "2">>, calls[c].out.text)

\* C15: in every composed advice the strength heading and the tips heading
\* stand once each, in that order; the growth heading stands between them,
\* followed by the growth record's text, exactly when a growth record matched;
\* the intro text, if there is one, is what precedes the strength heading;
\* the numbered tips follow the tips heading; and the closing text, if there
\* is one, is what follows the tips list.
C15_SectionOrder ==
    \A c \in NonZeroComposed :
        LET text == calls[c].out.text
            s == Val(calls[c].summary)
            posS == PosOf(text, StrengthHeading)
            posG == PosOf(text, GrowthHeading)
            posT == PosOf(text, TipsHeading)
            intro == UsedIn(c, "intro")
            growth == UsedIn(c, "growth")
            closing == UsedIn(c, "closing")
            tipCount == Len(NumbersOf(TipsSectionOf(text)))
            lastTip == IF tipCount = 0 THEN posT
                       ELSE PosOf(text, NumberTok(tipCount))
            closingLen == IF closing = <<>> THEN 0 ELSE Len(closing[1].item.text)
        IN  /\ CountOf(text, StrengthHeading) = 1
            /\ CountOf(text, TipsHeading) = 1
            /\ posS < posT
            /\ IF growth # <<>>
               THEN /\ CountOf(text, GrowthHeading) = 1
                    /\ posS < posG /\ posG < posT
                    /\ SubSeq(text, posG + 2, posT - 2) = Filled(growth[1].item.text, s)
               ELSE CountOf(text, GrowthHeading) = 0
            /\ IF intro # <<>>
               THEN /\ posS = Len(intro[1].item.text) + 2
                             + (IF includes(intro[1].item.text, "{periodLabel}")
                                THEN Len(calls[c].periodLabel) - 1 ELSE 0)
                    /\ text[1] = intro[1].item.text[1]
                    /\ text[posS - 1] = "\n\n"
               ELSE posS = 1
            /\ \A i \in 1..Len(text) :
                  (text[i] \in NumberToks /\ i > posT) => i <= Len(text) - closingLen
            /\ lastTip < Len(text) - closingLen
            /\ text[Len(text) - closingLen] = "\n"
            /\ closing # <<>> =>
                  SubSeq(text, Len(text) - closingLen + 1, Len(text))
                      = Filled(closing[1].item.text, s)

\* A composition with an intro, a growth section and a closing.
C15_Witness ==
    \E c \in NonZeroComposed :
        /\ UsedIn(c, "intro") # <<>>
        /\ UsedIn(c, "growth") # <<>>
        /\ UsedIn(c, "closing") # <<>>
        /\ includes(calls[c].out.text, GrowthHeading)

\* The findAndPick calls of type "tip" the composition c made, in order.
TipLookups(c) ==
    SelectSeq(calls[c].out.lookups, LAMBDA lk : lk.type = "tip")

\* C16: with a growth record selected, the first tip lookup asks for the
\* growth record's subtype, its result matches the criteria, and a tip it
\* finds is listed first, before the maintainStrengths tip; with no growth
\* record there is no growth heading and the only tip lookup is the one for
\* maintainStrengths.  The list has at most two tips, and the fallback tip is
\* there only when both lookups missed and is never a maintainStrengths record.
C16_TipsFollowGrowth ==
    \A c \in NonZeroComposed :
        LET adv == Val(calls[c].out.adv)
            s == Val(calls[c].summary)
            growth == UsedIn(c, "growth")
            lks == TipLookups(c)
            tips == SelectSeq(calls[c].out.used,
                        LAMBDA u : u.section \in {"growthTip", "maintainTip", "fallbackTip"})
            maintain == lks[Len(lks)]
        IN  /\ maintain.subtype = Some("maintainStrengths")
            /\ IF growth # <<>>
               THEN /\ Len(lks) = 2
                    /\ lks[1].subtype = Some(growth[1].item.subtype)
                    /\ ~IsNull(lks[1].result) =>
                          /\ tips[1] = UsedOf("growthTip", Val(lks[1].result))
                          /\ Val(lks[1].result) \in
                                Eligible(adv, s, "tip", Some(growth[1].item.subtype))
                          /\ Occurs(<<TipsHeading, "\n", NumberTok(1)>>
                                      \o Filled(Val(lks[1].result).text, s),
                                    calls[c].out.text)
                    /\ IsNull(lks[1].result) =>
                          \A i \in 1..Len(tips) : tips[i].section # "growthTip"
               ELSE /\ Len(lks) = 1
                    /\ ~includes(calls[c].out.text, GrowthHeading)
                    /\ \A i \in 1..Len(tips) : tips[i].section # "growthTip"
            /\ ~IsNull(maintain.result) =>
                  tips[Len(tips)] = UsedOf("maintainTip", Val(maintain.result))
            /\ Len(tips) <= 2
            /\ Len(NumbersOf(TipsSectionOf(calls[c].out.text))) = Len(tips)
            /\ \A i \in 1..Len(tips) :
                  tips[i].section = "fallbackTip" =>
                      /\ Len(tips) = 1
                      /\ \A k \in 1..Len(lks) : IsNull(lks[k].result)
                      /\ tips[i].item.type = "tip"
                      /\ tips[i].item.subtype # "maintainStrengths"

\* A composition whose growth record has a matching tip of its subtype, listed
\* before a matching maintainStrengths tip.
C16_Witness ==
    \E c \in NonZeroComposed :
        LET tips == SelectSeq(calls[c].out.used,
                        LAMBDA u : u.section \in {"growthTip", "maintainTip", "fallbackTip"})
        IN  /\ UsedIn(c, "growth") # <<>>
            /\ Len(tips) = 2
            /\ tips[1].section = "growthTip"
            /\ tips[1].item.subtype = UsedIn(c, "growth")[1].item.subtype
            /\ tips[2].section = "maintainTip"

\* The findAndPick calls of type "intro" the composition c made, in order.
IntroLookups(c) ==
    SelectSeq(calls[c].out.lookups, LAMBDA lk : lk.type = "intro")

\* The period type a label stands for, said directly.
ExpectedPeriodType(label) ==
    IF \E i \in 1..Len(label) : label[i] = WeekMarker THEN "weekly"
    ELSE IF \E i \in 1..Len(label) : label[i] = MonthMarker THEN "monthly"
    ELSE "daily"

\* C17: the first intro lookup asks for the period type of the label (weekly
\* with the week marker, also beside a month marker; else monthly with the
\* month marker; else daily), whatever the summary and the records; the
\* intro is a matching record of that subtype if there is one, else a
\* matching 'default' intro record if there is one, else there is no intro.
C17_PeriodTypeFromLabel ==
    \A c \in NonZeroComposed :
        LET adv == Val(calls[c].out.adv)
            s == Val(calls[c].summary)
            lks == IntroLookups(c)
            intro == UsedIn(c, "intro")
            ofPeriod == Eligible(adv, s, "intro", Some(ExpectedPeriodType(calls[c].periodLabel)))
            ofDefault == Eligible(adv, s, "intro", Some("default"))
        IN  /\ lks[1].subtype = Some(ExpectedPeriodType(calls[c].periodLabel))
            /\ calls[c].out.lookups[1] = lks[1]
            /\ IF ofPeriod # {}
               THEN Len(lks) = 1 /\ Len(intro) = 1 /\ intro[1].item \in ofPeriod
               ELSE /\ Len(lks) = 2
                    /\ lks[2].subtype = Some("default")
                    /\ IF ofDefault # {}
                       THEN Len(intro) = 1 /\ intro[1].item \in ofDefault
                       ELSE /\ intro = <<>>
                            /\ PosOf(calls[c].out.text, StrengthHeading) = 1

\* A label with both markers on a cache that holds a weekly intro: the intro
\* is the weekly one.
C17_Witness ==
    \E c \in NonZeroComposed :
        /\ includes(calls[c].periodLabel, WeekMarker)
        /\ includes(calls[c].periodLabel, MonthMarker)
        /\ UsedIn(c, "intro") # <<>>
        /\ UsedIn(c, "intro")[1].item.subtype = "weekly"

\* C18: whenever the unrestricted strength lookup returned null, the lookup
\* for strength records of subtype 'balance' returned null as well; the
\* strength section is the record of the unrestricted lookup or, with no such
\* record, the encouragement sentence.
C18_BalanceFallbackDead ==
    \A c \in NonZeroComposed :
        LET lks == SelectSeq(calls[c].out.lookups, LAMBDA lk : lk.type = "strength")
            strength == UsedIn(c, "strength")
        IN  /\ lks[1].subtype = Null
            /\ \A i \in 1..Len(lks) :
                  lks[i].subtype = Some("balance") =>
                      IsNull(lks[1].result) /\ IsNull(lks[i].result)
            /\ IF IsNull(lks[1].result)
               THEN /\ strength = <<>>
                    /\ includes(StrengthSectionOf(calls[c].out.text), Encouragement)
               ELSE strength = <<UsedOf("strength", Val(lks[1].result))>>

\* A composition that made the 'balance' lookup on a cache holding a strength
\* record of subtype 'balance'.
C18_Witness ==
    \E c \in NonZeroComposed :
        /\ \E i \in 1..Len(calls[c].out.lookups) :
              /\ calls[c].out.lookups[i].type = "strength"
              /\ calls[c].out.lookups[i].subtype = Some("balance")
              /\ IsNull(calls[c].out.lookups[i].result)
        /\ \E k \in 1..Len(Val(calls[c].out.adv)) :
              /\ Val(calls[c].out.adv)[k].type = "strength"
              /\ Val(calls[c].out.adv)[k].subtype = "balance"

----------------------------------------------------------------------------
(* AdviceCoach, src/components/AdviceCoach.tsx *)

\* goodWords / badWords of the logSummary prop: the word list of a DailyLog,
\* or the count of an AggregatedLog.
WordList(items) == [isArray |-> TRUE, items |-> items, n |-> 0]
WordCount(n) == [isArray |-> FALSE, items |-> <<>>, n |-> n]

\* Array.isArray(w) ? w.length : w || 0
countOrLength(w) == IF w.isArray THEN Len(w.items) ELSE w.n

\* lines 47-56 (and 30-39): summaryForAdvice
summaryForAdvice(log) ==
    [f \in Fields |->
        CASE f = "goodWordsCount" -> countOrLength(log.goodWords)
          [] f = "badWordsCount" -> countOrLength(log.badWords)
          [] OTHER -> log[f]]

\* The logSummary props of SpecCoach: none, an empty day, a day with one good
\* word, a week with one bad thought.
CoachLogs ==
    LET day(words) ==
            [goodThoughts |-> 0, badThoughts |-> 0, goodActions |-> 0,
             badActions |-> 0, goodWords |-> WordList(words),
             badWords |-> WordList(<<>>), happyEvents |-> 0, toughEvents |-> 0]
        week ==
            [goodThoughts |-> 0, badThoughts |-> 1, goodActions |-> 0,
             badActions |-> 0, goodWords |-> WordCount(0),
             badWords |-> WordCount(0), happyEvents |-> 0, toughEvents |-> 0]
    IN  {Null, Some(day(<<>>)), Some(day(<<"thanks">>)), Some(week)}

\* lines 28-41: the memo totalActions of the component
coachTotalActions(logSummary) ==
    IF IsNull(logSummary) THEN 0
    ELSE totalActions(summaryForAdvice(Val(logSummary)))

\* lines 70-72 and 90-102: the button is rendered when the total is not 0 and
\* neither advice nor error is set, and it is disabled while isLoading.
buttonEnabled(k, logSummary) ==
    /\ coachTotalActions(logSummary) # 0
    /\ IsNull(coaches[k].advice)
    /\ IsNull(coaches[k].error)
    /\ ~coaches[k].isLoading

\* A continuation of handleGetAdvice is queued: the promise it awaits has
\* settled.  Queued continuations run before the next click or network event.
ResumePending ==
    \E k \in CallIds :
        coaches[k].pc = "awaiting" /\ calls[coaches[k].call].pc = "done"

\* A click on the button of instance k: handleGetAdvice up to its await,
\* lines 43-57, with the synchronous part of generateDetailedAdvice.  The
\* instances are numbered in the order of their clicks.
handleGetAdvice(k, logSummary, periodLabel) ==
    /\ ~ResumePending
    /\ coaches[k].pc = "idle"
    /\ buttonEnabled(k, logSummary)
    /\ ~IsNull(logSummary)
    /\ invoke(k, Some(summaryForAdvice(Val(logSummary))), periodLabel)
    /\ coaches' = [coaches EXCEPT ![k] =
          [advice |-> coaches[k].advice, isLoading |-> TRUE, error |-> Null,
           pc |-> "awaiting", call |-> k]]
    /\ UNCHANGED <<sheet, adSheet, allAds, adIsFetching, adFetchPromise, adNet, adCalls>>
    /\ UNCHANGED restVars

\* `조언을 불러오지 못했습니다: ${errorMessage}`
CoachErrorMsg == <<"MSG_COACH_ERROR">>

\* handleGetAdvice after its await, lines 57-66: setAdvice(newAdvice), or the
\* catch branch when the awaited promise rejected, then the finally.
resumeGetAdvice(k) ==
    /\ coaches[k].pc = "awaiting"
    /\ calls[coaches[k].call].pc = "done"
    /\ LET out == calls[coaches[k].call].out
       IN  coaches' = [coaches EXCEPT ![k] =
              IF out.settled = "resolved"
              THEN [advice |-> Some(out.text), isLoading |-> FALSE,
                    error |-> coaches[k].error, pc |-> "finished",
                    call |-> coaches[k].call]
              ELSE [advice |-> Null, isLoading |-> FALSE,
                    error |-> Some(CoachErrorMsg), pc |-> "caught",
                    call |-> coaches[k].call]]
    /\ UNCHANGED <<adviceVars, adVars, restVars>>

InitCoach ==
    /\ sheet \in ServiceSheets
    /\ AdviceInit0
    /\ AdInit0
    /\ coaches = [k \in CallIds |-> IdleCoach]
    /\ RestInit0

NextCoach ==
    \/ \E k \in CallIds, log \in CoachLogs, l \in ServiceLabels :
          handleGetAdvice(k, log, l)
    \/ \E k \in CallIds : resumeGetAdvice(k)
    \/ (~ResumePending) /\ Network

SpecCoach == InitCoach /\ [][NextCoach]_vars

\* C19: no instance ever has its error set or runs the catch branch; while
\* handleGetAdvice awaits, isLoading is true; when it has ended, isLoading is
\* false and advice is the non-empty string generateDetailedAdvice returned,
\* which after a failed fetch is the generation-failed message.
C19_CoachErrorNeverSet ==
    \A k \in CallIds :
        /\ IsNull(coaches[k].error)
        /\ coaches[k].pc # "caught"
        /\ coaches[k].pc = "idle" => ~coaches[k].isLoading /\ IsNull(coaches[k].advice)
        /\ coaches[k].pc = "awaiting" => coaches[k].isLoading
        /\ coaches[k].pc = "finished" =>
              LET out == calls[coaches[k].call].out
              IN  /\ ~coaches[k].isLoading
                  /\ out.settled = "resolved"
                  /\ coaches[k].advice = Some(out.text)
                  /\ out.text # <<>>
                  /\ out = catchAll => coaches[k].advice = Some(GenerationFailedMsg)

\* One instance ended after a failed fetch and shows the failure as advice,
\* another ended after a later fetch that loaded the sheet and shows composed
\* advice.
C19_Witness ==
    \E k, j \in CallIds :
        /\ coaches[k].pc = "finished"
        /\ coaches[k].advice = Some(GenerationFailedMsg)
        /\ \E f \in 1..Len(net) : net[f] = "failed"
        /\ coaches[j].pc = "finished"
        /\ includes(Val(coaches[j].advice), TipsHeading)
        /\ ~coaches[j].isLoading

----------------------------------------------------------------------------
(* The daily logs of App, App.tsx:91-172 *)

\* The six fields handleCounterChange is called with, lines 314-392.
CounterFields ==
    {"goodThoughts", "badThoughts", "goodActions", "badActions",
     "happyEvents", "toughEvents"}

\* lines 134-139: the log of a day that has none stored
EmptyLog ==
    [goodWords |-> <<>>, badWords |-> <<>>,
     goodThoughts |-> 0, badThoughts |-> 0, goodActions |-> 0, badActions |-> 0,
     happyEvents |-> 0, toughEvents |-> 0]

\* line 134: allLogs[todayKey] || { ... }
currentLogOf(logs, date) == IF date \in DOMAIN logs THEN logs[date] ELSE EmptyLog

currentLog == currentLogOf(allLogs, currentDate)

\* line 132: isToday
isToday == currentDate = 0

\* line 142: { ...prev, [todayKey]: updatedLog }
updateLog(updatedLog) ==
    [d \in DOMAIN allLogs \cup {currentDate} |->
        IF d = currentDate THEN updatedLog ELSE allLogs[d]]

\* line 162 without Math.max
unclamped(n) == n

\* line 162: Math.max(0, n)
clamped(n) == IF n < 0 THEN 0 ELSE n

\* What lastChange records of a handler: the day selected, what it was called
\* with, and the logs stored when it ran.
ChangeOf(kind, field, amount) ==
    Some([kind |-> kind, date |-> currentDate, field |-> field,
          amount |-> amount, before |-> allLogs])

\* lines 157-164
handleCounterChange(field, amount) ==
    /\ changes < MaxChanges
    /\ allLogs' = updateLog([currentLog EXCEPT ![field] = clamped(@ + amount)])
    /\ changes' = changes + 1
    /\ lastChange' = ChangeOf("counter", field, amount)
    /\ UNCHANGED <<currentDate, criteriaStr, critSummary, verdict>>
    /\ UNCHANGED <<adviceVars, adVars, coaches>>

\* lines 145-155; Date.now() is the number of handlers run before
addWord(type, text) ==
    LET key == IF type = "good" THEN "goodWords" ELSE "badWords"
    IN  /\ changes < MaxChanges
        /\ allLogs' = updateLog([currentLog EXCEPT
                          ![key] = Append(@, [text |-> text, intensity |-> 1, id |-> changes])])
        /\ changes' = changes + 1
        /\ lastChange' = ChangeOf("word", key, 0)
        /\ UNCHANGED <<currentDate, criteriaStr, critSummary, verdict>>
        /\ UNCHANGED <<adviceVars, adVars, coaches>>

\* lines 166-172, called at line 263 with -1 and at line 267 with 1, where the
\* button is disabled on today
changeDate(offset) ==
    /\ offset = 1 => ~isToday
    /\ currentDate + offset >= 0 - MaxDays
    /\ currentDate' = currentDate + offset
    /\ UNCHANGED <<allLogs, changes, lastChange, criteriaStr, critSummary, verdict>>
    /\ UNCHANGED <<adviceVars, adVars, coaches>>

\* line 268: setCurrentDate(new Date()), disabled on today
goToToday ==
    /\ ~isToday
    /\ currentDate' = 0
    /\ UNCHANGED <<allLogs, changes, lastChange, criteriaStr, critSummary, verdict>>
    /\ UNCHANGED <<adviceVars, adVars, coaches>>

InitLogs ==
    /\ RestInit0
    /\ sheet = <<>>
    /\ AdviceInit0
    /\ AdInit0
    /\ coaches = [k \in CallIds |-> IdleCoach]

NextLogs ==
    \/ \E field \in CounterFields, amount \in {1, -1} : handleCounterChange(field, amount)
    \/ \E type \in {"good", "bad"} : addWord(type, "thanks")
    \/ \E offset \in {1, -1} : changeDate(offset)
    \/ goToToday

SpecLogs == InitLogs /\ [][NextLogs]_vars

\* C20: every counter of every stored log is a natural number; and after a
\* counter change the logs of the other days are as they were, the selected
\* day has a log, every other field of it is as it was (as in the empty log
\* if none was stored), and the named field went up by 1, or down by 1, or
\* stayed 0 on a decrement at 0.
C20_CountersNonNegative ==
    /\ \A d \in DOMAIN allLogs : \A f \in CounterFields : allLogs[d][f] \in Nat
    /\ (~IsNull(lastChange) /\ Val(lastChange).kind = "counter") =>
          LET ch == Val(lastChange)
              was == currentLogOf(ch.before, ch.date)
              now == allLogs[ch.date]
          IN  /\ DOMAIN allLogs = DOMAIN ch.before \cup {ch.date}
              /\ \A d \in DOMAIN ch.before : d # ch.date => allLogs[d] = ch.before[d]
              /\ \A g \in DOMAIN EmptyLog : g # ch.field => now[g] = was[g]
              /\ now[ch.field] =
                    IF ch.amount = -1 /\ was[ch.field] = 0 THEN 0
                    ELSE was[ch.field] + ch.amount

\* A decrement of a counter that was 0, on a day before today, while today's
\* log holds a word and a counter above 0.
C20_Witness ==
    /\ ~IsNull(lastChange)
    /\ Val(lastChange).kind = "counter"
    /\ Val(lastChange).amount = -1
    /\ Val(lastChange).date < 0
    /\ currentLogOf(Val(lastChange).before, Val(lastChange).date)[Val(lastChange).field] = 0
    /\ 0 \in DOMAIN allLogs
    /\ allLogs[0].goodWords # <<>>
    /\ \E f \in CounterFields : allLogs[0][f] > 0

====
